---------------------------- MODULE Spec2Model ----------------------------
(*
  Model of screen-capture-mcp (src/src/index.ts): the take_screenshot tool
  handler and the functions it calls.  One request is followed from its
  arrival to its response.  Each blocking external call (execSync of a
  PowerShell script, a sharp pipeline) is one step of the handler; what the
  external process or library gives back is chosen at that step.

  Numbers that come out of JavaScript's Number() are records
  [nan |-> BOOLEAN, v |-> Int], so that NaN is a value of the model.
  Strings are sequences of one-character strings.
*)
EXTENDS Integers, Sequences, FiniteSets, TLC

VARIABLES
    pc,            \* position of the handler
    window_title,  \* the request's argument (NoTitle when omitted)
    rawLayout,     \* stdout of the enumeration command, as lines of fields
    screens,       \* captureAllScreens: const screens
    attempts,      \* history: every captureSingleScreen call, in order, with its outcome
    captures,      \* captureAllScreens: const captures (built by screens.map)
    canvas,        \* the canvas handed to sharp({create: ...}), None before
    placed,        \* history: the overlays handed to .composite()
    procs,         \* the process table Get-Process returned
    matched,       \* the processes the Where-Object filter let through
    scriptRan,     \* history: whether the window script parsed and ran
    bitmaps,       \* history: sizes of the bitmaps the window script allocated
    pngBuffer,     \* the handler's let pngBuffer
    response       \* what the handler returned, None before

vars == << pc, window_title, rawLayout, screens, attempts, captures, canvas,
           placed, procs, matched, scriptRan, bitmaps, pngBuffer, response >>

-----------------------------------------------------------------------------
(* Bounds of the model *)

MaxScreens == 3     \* at most this many lines of enumeration output
MaxTitleLen == 2    \* at most this many characters in window_title
MaxProcs == 2       \* at most this many processes in the process table

None == [kind |-> "none"]
NoTitle == << "undefined" >>

-----------------------------------------------------------------------------
(* JavaScript numbers *)

NaN == [nan |-> TRUE, v |-> 0]
Num(i) == [nan |-> FALSE, v |-> i]

JSAdd(a, b) == IF a.nan \/ b.nan THEN NaN ELSE Num(a.v + b.v)
JSSub(a, b) == IF a.nan \/ b.nan THEN NaN ELSE Num(a.v - b.v)

SeqRange(s) == { s[i] : i \in 1..Len(s) }

\* Math.min(...xs) for a non-empty argument list: NaN if any argument is NaN.
MathMin(xs) ==
    IF \E a \in SeqRange(xs) : a.nan THEN NaN
    ELSE Num(CHOOSE m \in { a.v : a \in SeqRange(xs) } :
                 \A a \in SeqRange(xs) : m <= a.v)

\* Math.max(...xs) for a non-empty argument list.
MathMax(xs) ==
    IF \E a \in SeqRange(xs) : a.nan THEN NaN
    ELSE Num(CHOOSE m \in { a.v : a \in SeqRange(xs) } :
                 \A a \in SeqRange(xs) : m >= a.v)

-----------------------------------------------------------------------------
(* getScreenLayout *)

\* Bounds of the displays Windows may report, as <<X, Y, Width, Height>>:
\* side by side, left of the primary (negative x), above it (negative y),
\* wider than the output ceiling, and detached from the others.
DisplayBounds ==
    { << 0, 0, 1920, 1080 >>,
      << 1920, 0, 1920, 1080 >>,
      << -1920, 0, 1920, 1080 >>,
      << 0, 0, 2560, 1440 >>,
      << 0, -2160, 3840, 2160 >>,
      << 4000, 200, 1280, 720 >> }

\* The sequences of length n of distinct elements of S.
RECURSIVE DistinctSeqs(_, _)
DistinctSeqs(S, n) ==
    IF n = 0 THEN { << >> }
    ELSE UNION { { Append(s, e) : e \in S \ SeqRange(s) } :
                 s \in DistinctSeqs(S, n - 1) }

\* What the enumeration command may print: one line "X,Y,Width,Height" per
\* display, here the sequence of its four numbers; nothing at all (<< >>)
\* when no display is reported.
RawOutputs == UNION { DistinctSeqs(DisplayBounds, n) : n \in 0..MaxScreens }

\* result.trim().split(/\r?\n/): the lines of the output.  "".split(...) is
\* [""], one empty line (the empty sequence of fields).
SplitLines(out) == IF out = << >> THEN << << >> >> ELSE out

\* line.split(",").map(Number)[i]: "".split(",") is [""] and Number("") is 0;
\* a field that is not there is undefined and Number(undefined) is NaN.
Field(line, i) ==
    IF line = << >> THEN (IF i = 1 THEN Num(0) ELSE NaN)
    ELSE IF i <= Len(line) THEN Num(line[i]) ELSE NaN

ParseLine(line) ==
    [x |-> Field(line, 1), y |-> Field(line, 2),
     width |-> Field(line, 3), height |-> Field(line, 4)]

\* getScreenLayout's return value for the output `out`.
ParseLayout(out) ==
    [i \in 1..Len(SplitLines(out)) |-> ParseLine(SplitLines(out)[i])]

-----------------------------------------------------------------------------
(* Buffers and thrown errors *)

Thrown(m) == [kind |-> "throw", message |-> m]
EmptyBuffer == [kind |-> "empty"]
Png(w, h, from) == [kind |-> "png", width |-> w, height |-> h, from |-> from]

\* execSync throws when the child exits with a non-zero status and when it
\* is killed at the timeout.
ExecFailures == { Thrown("Command failed"), Thrown("ETIMEDOUT") }

-----------------------------------------------------------------------------
(* captureSingleScreen *)

HasNaN(screen) ==
    screen.x.nan \/ screen.y.nan \/ screen.width.nan \/ screen.height.nan

\* The sizes of the PNG the capture script may hand back for a screen.  The
\* script allocates a bitmap of the screen's width and height; runPowerShell
\* decodes whatever the child printed without looking at it, so the handler
\* has no guarantee that the PNG has the size it asked for.
CapturedSizes(screen) ==
    { << screen.width.v, screen.height.v >>,
      << screen.width.v \div 2, screen.height.v \div 2 >> }

\* What captureSingleScreen(screen) may do: return a buffer or throw.  With
\* NaN in the script text PowerShell cannot build the bitmap: the child
\* either exits non-zero or prints nothing (an empty buffer).
CaptureSingleScreenResults(screen) ==
    IF HasNaN(screen) THEN { Thrown("Command failed"), EmptyBuffer }
    ELSE { Png(sz[1], sz[2], "capture") : sz \in CapturedSizes(screen) }
         \cup ExecFailures

-----------------------------------------------------------------------------
(* captureAllScreens: the bounding box and the offsets *)

\* The rectangle's right and bottom edges.
GetRight(s) == JSAdd(s.x, s.width)
GetBottom(s) == JSAdd(s.y, s.height)

minX(ss) == MathMin([i \in 1..Len(ss) |-> ss[i].x])
minY(ss) == MathMin([i \in 1..Len(ss) |-> ss[i].y])
maxX(ss) == MathMax([i \in 1..Len(ss) |-> GetRight(ss[i])])
maxY(ss) == MathMax([i \in 1..Len(ss) |-> GetBottom(ss[i])])

\* Faulty variant: the canvas is as wide as the rightmost edge, as if minX were 0.
totalWidth_FromOrigin(ss) == maxX(ss)

totalWidth(ss) == JSSub(maxX(ss), minX(ss))
totalHeight(ss) == JSSub(maxY(ss), minY(ss))

\* Faulty variant: the display's own coordinates are used as the offset.
CaptureEntry_Untranslated(ss, screen, buffer) ==
    [input |-> buffer, left |-> screen.x, top |-> screen.y]

\* One element of `captures`: the buffer and where it goes on the canvas.
CaptureEntry(ss, screen, buffer) ==
    [input |-> buffer,
     left |-> JSSub(screen.x, minX(ss)),
     top |-> JSSub(screen.y, minY(ss))]

\* The canvas description given to sharp({ create: ... }).
CreateCanvas(ss) ==
    [kind |-> "canvas", width |-> totalWidth(ss), height |-> totalHeight(ss),
     channels |-> 4, alpha |-> 1]

\* sharp(create).composite(overlays).png().toBuffer(): rejects when the
\* canvas has no positive integer size, when an overlay is not an image, or
\* when an overlay is larger than the canvas; otherwise a PNG of the canvas's
\* size.
SharpComposite(cv, overlays) ==
    IF cv.width.nan \/ cv.height.nan THEN Thrown("Expected positive integer")
    ELSE IF cv.width.v <= 0 \/ cv.height.v <= 0
    THEN Thrown("Expected positive integer")
    ELSE IF \E i \in 1..Len(overlays) : overlays[i].input.kind # "png"
    THEN Thrown("Input buffer is empty")
    ELSE IF \E i \in 1..Len(overlays) :
                \/ overlays[i].input.width > cv.width.v
                \/ overlays[i].input.height > cv.height.v
    THEN Thrown("Image to composite must have same dimensions or smaller")
    ELSE Png(cv.width.v, cv.height.v, "composite")

-----------------------------------------------------------------------------
(* resizeImage *)

targetWidth == 2560

\* Math.round(a / b) for a >= 0, b > 0.
RoundDiv(a, b) == (2 * a + b) \div (2 * b)

\* Faulty variant: the comparison with targetWidth is lost and every image is resized.
ResizeImageResult_Always(buf) ==
    IF buf.kind # "png" THEN Thrown("Input buffer is empty")
    ELSE Png(targetWidth, RoundDiv(buf.height * targetWidth, buf.width), "resize")

\* resizeImage(pngBuffer): the buffer itself when it is not wider than
\* targetWidth; otherwise a new PNG of width targetWidth whose height keeps
\* the aspect ratio.  sharp(...).metadata() rejects a buffer that is no image.
ResizeImageResult(buf) ==
    IF buf.kind # "png" THEN Thrown("Input buffer is empty")
    ELSE IF buf.width # 0 /\ buf.width > targetWidth
    THEN Png(targetWidth, RoundDiv(buf.height * targetWidth, buf.width), "resize")
    ELSE buf

-----------------------------------------------------------------------------
(* captureWindowByTitle: the script text *)

\* The characters a title is made of here: letters in both cases, the
\* wildcard characters of -like, and the two PowerShell quote characters.
Chars == { "a", "A", "b", "*", "?", "'", "\"" }

Titles == UNION { [1..n -> Chars] : n \in 0..MaxTitleLen }

\* title.replace(/'/g, "''")
RECURSIVE EscapeQuotes(_)
EscapeQuotes(t) ==
    IF t = << >> THEN << >>
    ELSE IF Head(t) = "'" THEN << "'", "'" >> \o EscapeQuotes(Tail(t))
    ELSE << Head(t) >> \o EscapeQuotes(Tail(t))

\* PowerShell reading the body of a single-quoted literal: '' stands for one
\* quote; a quote on its own ends the literal (ok is FALSE: the text after it
\* is read as script).
RECURSIVE ReadSingleQuoted(_)
ReadSingleQuoted(body) ==
    IF body = << >> THEN [ok |-> TRUE, value |-> << >>]
    ELSE IF Head(body) # "'"
    THEN LET r == ReadSingleQuoted(Tail(body))
         IN  [ok |-> r.ok, value |-> << Head(body) >> \o r.value]
    ELSE IF Len(body) >= 2 /\ body[2] = "'"
    THEN LET r == ReadSingleQuoted(Tail(Tail(body)))
         IN  [ok |-> r.ok, value |-> << "'" >> \o r.value]
    ELSE [ok |-> FALSE, value |-> << >>]

CountChar(t, c) == Cardinality({ i \in 1..Len(t) : t[i] = c })

\* Whether PowerShell can parse the script built around safeTitle.  safeTitle
\* is pasted into a single-quoted literal (line 114) and into a double-quoted
\* one (line 115).  A lone ' ends the first literal early.  In the second, "
\* is the delimiter: an odd number of them leaves a string of the script
\* without its terminator.  A script that does not parse runs no statement.
WindowScriptParses(safeTitle) ==
    /\ ReadSingleQuoted(safeTitle).ok
    /\ CountChar(safeTitle, "\"") % 2 = 0

\* The right operand of -like on line 114: '*${safeTitle}*' as PowerShell
\* reads it.
LikePattern(safeTitle) == << "*" >> \o ReadSingleQuoted(safeTitle).value \o << "*" >>

ToLower(c) == IF c = "A" THEN "a" ELSE c

\* text -like pattern: * matches any run of characters, ? any one character,
\* any other character itself, without regard to case.  (Chars holds no [ ]
\* and no backtick, the other characters -like gives a meaning to.)
RECURSIVE Like(_, _)
Like(text, pattern) ==
    IF pattern = << >> THEN text = << >>
    ELSE IF Head(pattern) = "*"
    THEN Like(text, Tail(pattern)) \/ (text # << >> /\ Like(Tail(text), pattern))
    ELSE IF text = << >> THEN FALSE
    ELSE IF Head(pattern) = "?" THEN Like(Tail(text), Tail(pattern))
    ELSE ToLower(Head(pattern)) = ToLower(Head(text))
         /\ Like(Tail(text), Tail(pattern))

\* The Where-Object filter of line 114.
WhereObject(p, safeTitle) ==
    Like(p.MainWindowTitle, LikePattern(safeTitle)) /\ p.MainWindowHandle # 0

RECURSIVE FilterSeq(_, _)
FilterSeq(table, safeTitle) ==
    IF table = << >> THEN << >>
    ELSE IF WhereObject(Head(table), safeTitle)
    THEN << Head(table) >> \o FilterSeq(Tail(table), safeTitle)
    ELSE FilterSeq(Tail(table), safeTitle)

-----------------------------------------------------------------------------
(* captureWindowByTitle: the processes *)

Process(title, handle, l, t, r, b) ==
    [MainWindowTitle |-> title, MainWindowHandle |-> handle,
     rect |-> [Left |-> l, Top |-> t, Right |-> r, Bottom |-> b]]

\* Processes Get-Process may list: ordinary windows, one wider than the
\* output ceiling, one whose rectangle is empty, one without a main window,
\* and titles that hold the characters of Chars.
ProcessPool ==
    { Process(<< "a", "b" >>, 11, 100, 100, 900, 700),
      Process(<< "A", "'" >>, 12, 0, 0, 3840, 2160),
      Process(<< "a", "\"" >>, 13, -500, 50, 500, 800),
      Process(<< "b", "*" >>, 14, 200, 200, 200, 200),
      Process(<< "a" >>, 0, 0, 0, 0, 0),
      Process(<< >>, 15, 300, 300, 600, 250) }

ProcessTables == UNION { DistinctSeqs(ProcessPool, n) : n \in 0..MaxProcs }

\* $width and $height of lines 121-122.
RectWidth(rect) == rect.Right - rect.Left
RectHeight(rect) == rect.Bottom - rect.Top

\* Faulty variant: only negative sizes are rejected.
InvalidDimensions_Negative(w, h) == w < 0 \/ h < 0

\* The test of line 124.
InvalidDimensions(w, h) == w <= 0 \/ h <= 0

-----------------------------------------------------------------------------
(* The take_screenshot handler *)

\* if (window_title): undefined and "" are falsy.
Truthy(t) == t # NoTitle /\ t # << >>

\* The handler's catch block.
ErrorResponse(message) ==
    [kind |-> "response", isError |-> TRUE, type |-> "text", text |-> "Screenshot failed",
     message |-> message, data |-> None]

\* The handler's return after resizeImage.
ImageResponse(buf) ==
    [kind |-> "response", isError |-> FALSE, type |-> "image", text |-> "", message |-> "",
     data |-> buf]

\* An exception reaches the catch block: the request ends.
Catch(message) ==
    /\ response' = ErrorResponse(message)
    /\ pc' = "done"

Init ==
    /\ pc = "idle"
    /\ window_title = NoTitle
    /\ rawLayout = << >>
    /\ screens = << >>
    /\ attempts = << >>
    /\ captures = << >>
    /\ canvas = None
    /\ placed = << >>
    /\ procs = << >>
    /\ matched = << >>
    /\ scriptRan = FALSE
    /\ bitmaps = << >>
    /\ pngBuffer = None
    /\ response = None

\* A request arrives (lines 165-173): the branch on window_title.
TakeScreenshot ==
    /\ pc = "idle"
    /\ \E t \in Titles \cup { NoTitle } :
          /\ window_title' = t
          /\ pc' = IF Truthy(t) THEN "window" ELSE "layout"
    /\ UNCHANGED << rawLayout, screens, attempts, captures, canvas, placed,
                    procs, matched, scriptRan, bitmaps, pngBuffer, response >>

\* Faulty variant: the one-screen shortcut is gone.
AfterLayout_NoShortcut(ss) == "map"

\* captureAllScreens, line 60: one screen is returned as captured, any other
\* number of screens goes through the map and the composite.
AfterLayout(ss) == IF Len(ss) = 1 THEN "single" ELSE "map"

\* captureAllScreens, line 59: the enumeration command runs, or execSync
\* throws.
GetScreenLayout ==
    /\ pc = "layout"
    /\ \/ \E out \in RawOutputs :
             /\ rawLayout' = out
             /\ screens' = ParseLayout(out)
             /\ pc' = AfterLayout(ParseLayout(out))
             /\ UNCHANGED response
       \/ \E e \in ExecFailures :
             /\ Catch(e.message)
             /\ UNCHANGED << rawLayout, screens >>
    /\ UNCHANGED << window_title, attempts, captures, canvas, placed, procs,
                    matched, scriptRan, bitmaps, pngBuffer >>

\* captureAllScreens, lines 60-62: exactly one screen, returned as captured.
CaptureOnlyScreen ==
    /\ pc = "single"
    /\ \E r \in CaptureSingleScreenResults(screens[1]) :
          /\ attempts' = Append(attempts, [screen |-> screens[1], result |-> r])
          /\ IF r.kind = "throw"
             THEN Catch(r.message) /\ UNCHANGED pngBuffer
             ELSE /\ pngBuffer' = r
                  /\ pc' = "resize"
                  /\ UNCHANGED response
    /\ UNCHANGED << window_title, rawLayout, screens, captures, canvas, placed,
                    procs, matched, scriptRan, bitmaps >>

\* Faulty variant: a failed capture is replaced by a one-pixel placeholder and the
\* composite is made of what there is.
MapNextScreen_Placeholder(ss, done, r) ==
    /\ captures' = Append(done, CaptureEntry(ss, ss[Len(done) + 1],
                                IF r.kind = "throw" THEN Png(1, 1, "blank") ELSE r))
    /\ pc' = IF Len(done) + 1 = Len(ss) THEN "composite" ELSE "map"
    /\ UNCHANGED response

\* Faulty variant: a failed capture is recorded as an empty buffer and the map goes
\* on to the next screen.
MapNextScreen_GoOn(ss, done, r) ==
    /\ captures' = Append(done, CaptureEntry(ss, ss[Len(done) + 1],
                                IF r.kind = "throw" THEN EmptyBuffer ELSE r))
    /\ pc' = IF Len(done) + 1 = Len(ss) THEN "composite" ELSE "map"
    /\ UNCHANGED response

\* One call of the callback of screens.map (lines 71-75), for the next
\* screen in order.  An exception of captureSingleScreen leaves the map.
MapNextScreen(ss, done, r) ==
    IF r.kind = "throw"
    THEN /\ Catch(r.message)
         /\ UNCHANGED captures
    ELSE /\ captures' = Append(done, CaptureEntry(ss, ss[Len(done) + 1], r))
         /\ pc' = IF Len(done) + 1 = Len(ss) THEN "composite" ELSE "map"
         /\ UNCHANGED response

CaptureNextScreen ==
    /\ pc = "map"
    /\ Len(captures) < Len(screens)
    /\ \E r \in CaptureSingleScreenResults(screens[Len(captures) + 1]) :
          /\ attempts' = Append(attempts, [screen |-> screens[Len(captures) + 1],
                                           result |-> r])
          /\ MapNextScreen(screens, captures, r)
    /\ UNCHANGED << window_title, rawLayout, screens, canvas, placed, procs,
                    matched, scriptRan, bitmaps, pngBuffer >>

\* captureAllScreens, lines 77-93: the canvas and the composite.
Composite ==
    /\ pc = "composite"
    /\ canvas' = CreateCanvas(screens)
    /\ placed' = captures
    /\ LET r == SharpComposite(CreateCanvas(screens), captures)
       IN  IF r.kind = "throw"
           THEN Catch(r.message) /\ UNCHANGED pngBuffer
           ELSE /\ pngBuffer' = r
                /\ pc' = "resize"
                /\ UNCHANGED response
    /\ UNCHANGED << window_title, rawLayout, screens, attempts, captures, procs,
                    matched, scriptRan, bitmaps >>

\* captureWindowByTitle, lines 97-124: the script is built and started
\* against the processes of the moment; when it parses, it looks for the
\* window and checks its rectangle.  Or the child is killed at the timeout
\* before it gets that far.
LocateWindow ==
    /\ pc = "window"
    /\ \/ \E table \in ProcessTables :
             LET safeTitle == EscapeQuotes(window_title)
                 found == FilterSeq(table, safeTitle)
             IN  /\ procs' = table
                 /\ IF ~WindowScriptParses(safeTitle)
                    THEN /\ Catch("Command failed")
                         /\ UNCHANGED << matched, scriptRan >>
                    ELSE /\ matched' = found
                         /\ scriptRan' = TRUE
                         /\ IF found = << >>
                            THEN Catch("Window not found")
                            ELSE IF InvalidDimensions(RectWidth(found[1].rect),
                                                      RectHeight(found[1].rect))
                            THEN Catch("Invalid window dimensions")
                            ELSE pc' = "bitmap" /\ UNCHANGED response
       \/ /\ Catch("ETIMEDOUT")
          /\ UNCHANGED << procs, matched, scriptRan >>
    /\ UNCHANGED << window_title, rawLayout, screens, attempts, captures,
                    canvas, placed, bitmaps, pngBuffer >>

\* captureWindowByTitle, lines 126-136: the bitmap of the window's size is
\* allocated and filled from the screen; or the child fails or is killed at
\* the timeout.
CaptureWindow ==
    /\ pc = "bitmap"
    /\ LET w == RectWidth(matched[1].rect)
           h == RectHeight(matched[1].rect)
       IN  /\ bitmaps' = Append(bitmaps, << w, h >>)
           /\ \E r \in { Png(w, h, "capture") } \cup ExecFailures :
                 IF r.kind = "throw"
                 THEN Catch(r.message) /\ UNCHANGED pngBuffer
                 ELSE /\ pngBuffer' = r
                      /\ pc' = "resize"
                      /\ UNCHANGED response
    /\ UNCHANGED << window_title, rawLayout, screens, attempts, captures,
                    canvas, placed, procs, matched, scriptRan >>

\* Lines 175-186: resizeImage, then the image response.
ResizeAndReturn ==
    /\ pc = "resize"
    /\ LET r == ResizeImageResult(pngBuffer)
       IN  IF r.kind = "throw"
           THEN Catch(r.message) /\ UNCHANGED pngBuffer
           ELSE /\ pngBuffer' = r
                /\ response' = ImageResponse(r)
                /\ pc' = "done"
    /\ UNCHANGED << window_title, rawLayout, screens, attempts, captures,
                    canvas, placed, procs, matched, scriptRan, bitmaps >>

Next ==
    \/ TakeScreenshot
    \/ GetScreenLayout
    \/ CaptureOnlyScreen
    \/ CaptureNextScreen
    \/ Composite
    \/ LocateWindow
    \/ CaptureWindow
    \/ ResizeAndReturn

Spec == Init /\ [][Next]_vars

-----------------------------------------------------------------------------
(* Properties.  They are stated over what the platform reported (rawLayout,
   procs) and what the handler did (attempts, placed, bitmaps, response). *)

\* The request took the all-screens path and the enumeration returned.
Enumerated == ~Truthy(window_title) /\ pc \notin { "idle", "layout" } /\ screens # << >>

\* The bounding box of the reported displays, from the reported numbers.
BoxLeft(R) == CHOOSE m \in { R[i][1] : i \in 1..Len(R) } :
                  \A i \in 1..Len(R) : m <= R[i][1]
BoxTop(R) == CHOOSE m \in { R[i][2] : i \in 1..Len(R) } :
                 \A i \in 1..Len(R) : m <= R[i][2]
BoxRight(R) == CHOOSE m \in { R[i][1] + R[i][3] : i \in 1..Len(R) } :
                   \A i \in 1..Len(R) : m >= R[i][1] + R[i][3]
BoxBottom(R) == CHOOSE m \in { R[i][2] + R[i][4] : i \in 1..Len(R) } :
                    \A i \in 1..Len(R) : m >= R[i][2] + R[i][4]

\* C1: whenever captureAllScreens has created a canvas, N >= 2 displays were
\* reported and the canvas is max(x + width) - min(x) wide and
\* max(y + height) - min(y) high over all of them.
C1_CanvasIsBoundingBox ==
    canvas.kind = "canvas" =>
        /\ Len(rawLayout) >= 2
        /\ canvas.width = Num(BoxRight(rawLayout) - BoxLeft(rawLayout))
        /\ canvas.height = Num(BoxBottom(rawLayout) - BoxTop(rawLayout))

\* C1 witness: a display left of the primary one (negative x) beside a
\* larger one has been composited on a 4480x1440 canvas.
C1_Witness ==
    /\ canvas.kind = "canvas"
    /\ rawLayout = << << -1920, 0, 1920, 1080 >>, << 0, 0, 2560, 1440 >> >>
    /\ canvas.width = Num(4480)
    /\ canvas.height = Num(1440)

\* C2: in a multi-surface request every capture is given the offset
\* (x - minX, y - minY) of its display; both are >= 0 and the display's
\* rectangle at that offset lies within the canvas.
C2_OffsetsInsideCanvas ==
    (Enumerated /\ Len(screens) >= 2) =>
        \A i \in 1..Len(captures) :
            LET R == rawLayout
                left == R[i][1] - BoxLeft(R)
                top == R[i][2] - BoxTop(R)
            IN  /\ captures[i].left = Num(left)
                /\ captures[i].top = Num(top)
                /\ left >= 0
                /\ top >= 0
                /\ left + R[i][3] <= BoxRight(R) - BoxLeft(R)
                /\ top + R[i][4] <= BoxBottom(R) - BoxTop(R)
                /\ canvas.kind = "canvas" =>
                      /\ placed = captures
                      /\ captures[i].left.v + R[i][3] <= canvas.width.v
                      /\ captures[i].top.v + R[i][4] <= canvas.height.v

\* C2 witness: the two displays of C1's witness were placed at (0,0) and
\* (1920,0).
C2_Witness ==
    /\ rawLayout = << << -1920, 0, 1920, 1080 >>, << 0, 0, 2560, 1440 >> >>
    /\ Len(placed) = 2
    /\ placed[1].left = Num(0) /\ placed[1].top = Num(0)
    /\ placed[2].left = Num(1920) /\ placed[2].top = Num(0)

\* The image handed to resizeImage, from the history of the request.
Unscaled ==
    IF bitmaps # << >> THEN Png(bitmaps[1][1], bitmaps[1][2], "capture")
    ELSE IF canvas.kind = "canvas"
    THEN Png(canvas.width.v, canvas.height.v, "composite")
    ELSE attempts[1].result

\* C3: a returned image is never wider than 2560; one that was wider before
\* the normalizer is exactly 2560 wide, one that was not is returned as it
\* was.
C3_WidthCeiling ==
    (response.kind = "response" /\ response.type = "image") =>
        /\ response.data.width <= 2560
        /\ Unscaled.width > 2560 => response.data.width = 2560
        /\ Unscaled.width <= 2560 => response.data = Unscaled

\* C3 witness: a single 3840x2160 display came back as 2560x1440.
C3_Witness ==
    /\ response.kind = "response" /\ response.type = "image"
    /\ Len(screens) = 1
    /\ Unscaled.width = 3840
    /\ response.data = Png(2560, 1440, "resize")

\* Some capture call of the request threw.
SomeCaptureFailed == \E i \in 1..Len(attempts) : attempts[i].result.kind = "throw"

\* C4: a request in which a surface capture failed or timed out ends in one
\* error response, "Screenshot failed", without image; an all-screens request
\* returns an image only when every surface was captured and, for several
\* surfaces, composited.
C4_NoPartialSuccess ==
    /\ SomeCaptureFailed =>
          /\ pc = "done"
          /\ response.kind = "response"
          /\ response.isError
          /\ response.type = "text"
          /\ response.text = "Screenshot failed"
          /\ response.data = None
    /\ (Enumerated /\ response.kind = "response" /\ response.type = "image") =>
          /\ Len(attempts) = Len(screens)
          /\ \A i \in 1..Len(attempts) : attempts[i].result.kind = "png"
          /\ Len(screens) >= 2 =>
                /\ canvas.kind = "canvas"
                /\ Len(placed) = Len(screens)

\* C4 witness: the capture of surface 2 of 3 timed out after surface 1 was
\* captured, and the request ended in the error response.
C4_Witness ==
    /\ Len(screens) = 3
    /\ Len(attempts) = 2
    /\ attempts[1].result.kind = "png"
    /\ attempts[2].result = Thrown("ETIMEDOUT")
    /\ response = ErrorResponse("ETIMEDOUT")

ContainsIgnoreCase(text, s) ==
    \E k \in 0..(Len(text) - Len(s)) :
        \A j \in 1..Len(s) : ToLower(text[k + j]) = ToLower(s[j])

\* C6 as stated: whatever characters the search string holds, the processes
\* the window script selects are exactly those with a main window whose
\* title contains the search string literally, without regard to case.
C6_LiteralSubstringMatch ==
    (Truthy(window_title) /\ pc \notin { "idle", "window" }) =>
        SeqRange(matched) =
            { p \in SeqRange(procs) :
                /\ p.MainWindowHandle # 0
                /\ ContainsIgnoreCase(p.MainWindowTitle, window_title) }

\* C7: the window script allocates no bitmap of width <= 0 or height <= 0;
\* when the matched window's rectangle has such a size the request ends in
\* the error "Invalid window dimensions" with no bitmap allocated and no
\* image; an image returned for a window has positive width and height.
C7_InvalidGeometryRejected ==
    /\ \A i \in 1..Len(bitmaps) : bitmaps[i][1] > 0 /\ bitmaps[i][2] > 0
    /\ (matched # << >> /\ (\/ matched[1].rect.Right <= matched[1].rect.Left
                            \/ matched[1].rect.Bottom <= matched[1].rect.Top)) =>
          /\ bitmaps = << >>
          /\ pngBuffer = None
          /\ pc = "done"
          /\ response = ErrorResponse("Invalid window dimensions")
    /\ (Truthy(window_title) /\ response.kind = "response"
                             /\ response.type = "image") =>
          response.data.width > 0 /\ response.data.height > 0

\* C7 witness: the first matching window has an empty rectangle and the
\* request was refused.
C7_Witness ==
    /\ matched # << >>
    /\ matched[1].rect.Right = matched[1].rect.Left
    /\ bitmaps = << >>
    /\ response = ErrorResponse("Invalid window dimensions")

\* C8 as stated: when the enumeration command prints nothing, the
\* all-screens request fails at the enumeration: getScreenLayout returns no
\* screen and captureSingleScreen is never called.
C8_NoDisplaysIsEnumerationError ==
    (~Truthy(window_title) /\ pc \notin { "idle", "layout" } /\ rawLayout = << >>) =>
        /\ screens = << >>
        /\ attempts = << >>
        /\ pc = "done"
        /\ response.kind = "response"
        /\ response.isError

\* Capture i of the composite has another size than its display.
SizeMismatch(i) ==
    \/ placed[i].input.kind # "png"
    \/ placed[i].input.width # rawLayout[i][3]
    \/ placed[i].input.height # rawLayout[i][4]

C10_SingleSurfaceBypassesComposite ==
    (Enumerated /\ Len(screens) = 1) =>
        /\ canvas = None
        /\ placed = << >>
        /\ captures = << >>
        /\ Len(attempts) <= 1
        /\ pc = "resize" => pngBuffer = attempts[1].result
        /\ (response.kind = "response" /\ response.type = "image") =>
              IF attempts[1].result.width > 2560
              THEN response.data.from = "resize"
              ELSE response.data = attempts[1].result

\* C10 witness: the capture of a single 1920x1080 display was returned as
\* it was captured.
C10_Witness ==
    /\ rawLayout = << << 0, 0, 1920, 1080 >> >>
    /\ canvas = None
    /\ response.kind = "response" /\ response.type = "image"
    /\ response.data = attempts[1].result
    /\ response.data = Png(1920, 1080, "capture")

=============================================================================
